---------------------------- MODULE Spec2Model ----------------------------
(***************************************************************************)
(* A model of the parallel PUT benchmark (jalieven/perftest).              *)
(*                                                                         *)
(* Two variants of the program are in the repository:                      *)
(*   "put"      src/parallel-upload-download/parallel-put.go               *)
(*   "part_000" src/unnamed/part_000                                       *)
(* They share parallelUploads and the head of main and differ in the       *)
(* object-name format, the metadata loop of uploadBlob and the report.     *)
(*                                                                         *)
(* Strings are sequences of one-character strings, so that Atoi and        *)
(* Sprintf are computed character by character.  A random string is the    *)
(* pair of its length and its numeral in base len(letterBytes): the        *)
(* letters drawn at positions 1..len, read as digits.                      *)
(* The clock counts milliseconds, the precision of the printed stamps; it  *)
(* is seen only where the program reads it, and a reading is any instant   *)
(* from the previous reading on.                                           *)
(***************************************************************************)
EXTENDS Integers, Sequences, FiniteSets, TLC

\* ------------------------------------------------------------ bounds
MaxConc      == 2   \* largest CONCURRENCY value tried
MaxSize      == 1   \* largest -size tried
MaxMetaCount == 2   \* largest -meta-count tried
MaxMetaSize  == 1   \* largest -meta-size tried
MaxDraws     == 2   \* distinct outcomes of one random string that are tried
MaxClock     == 2   \* the latest instant the clock is read at

\* ------------------------------------------------------------ program constants
defaultMetaCount == 1       \* flag -meta-count when not given
defaultMetaSize  == 1024    \* flag -meta-size when not given
letterBytesLen   == 52      \* len(letterBytes)
part000ValueSize == 1024    \* RandStringBytes(1024) in part_000

Variants == {"put", "part_000"}

\* ------------------------------------------------------------ strings
DigitChars == <<"0", "1", "2", "3", "4", "5", "6", "7", "8", "9">>

IsDigit(c) == \E d \in 1..10 : DigitChars[d] = c

DigitVal(c) == (CHOOSE d \in 1..10 : DigitChars[d] = c) - 1

Min(a, b) == IF a <= b THEN a ELSE b

\* strconv.Itoa / the %d and %v verbs of fmt on an int
RECURSIVE Itoa(_)
Itoa(n) ==
    IF n < 0 THEN <<"-">> \o Itoa(-n)
    ELSE IF n < 10 THEN <<DigitChars[n + 1]>>
    ELSE Itoa(n \div 10) \o <<DigitChars[(n % 10) + 1]>>

\* the value of a string of decimal digits, most significant first
RECURSIVE DigitsVal(_)
DigitsVal(s) ==
    IF s = <<>> THEN 0
    ELSE 10 * DigitsVal(SubSeq(s, 1, Len(s) - 1)) + DigitVal(s[Len(s)])

\* strconv.Atoi: an optional sign, then one or more decimal digits;
\* anything else is an error and the value returned with it is 0
Atoi(s) ==
    LET signed == s # <<>> /\ s[1] \in {"+", "-"}
        body   == IF signed THEN SubSeq(s, 2, Len(s)) ELSE s
        bad    == body = <<>> \/ \E k \in 1..Len(body) : ~IsDigit(body[k])
    IN  IF bad THEN [err |-> TRUE, val |-> 0]
        ELSE [err |-> FALSE,
              val |-> IF signed /\ s[1] = "-" THEN -DigitsVal(body)
                      ELSE DigitsVal(body)]

\* ------------------------------------------------------------ inputs
NotNumbers == { <<>>, <<"a", "b", "c">>, <<"1", "x">>, <<"-">> }

ConcurrencyInputs ==
    NotNumbers \cup { Itoa(n) : n \in (-1)..MaxConc } \cup { <<"+", "0">>, <<"0", "0">> }

NodeInputs == { <<>>, <<"n", "-", "1">> }

LocalOffsets == {0, 2}


VARIABLES
    variant,      \* which of the two source files runs
    concurrency,  \* os.Getenv("CONCURRENCY")
    nodeNumber,   \* os.Getenv("NODE")
    objectSize,   \* *objectSize  (flag -size)
    metaCount,    \* *metaCount   (flag -meta-count)
    metaSize,     \* *metaSize    (flag -meta-size)
    localOffset,  \* offset of the machine's local time zone from UTC
    now,          \* the last reading of the wall clock, in UTC
    pc,           \* position of the main goroutine
    exit,         \* "running", or the exit status of the process: "0", "1", "2"
    conc,         \* main's conc
    objectNames,  \* main's objectNames
    data,         \* main's data
    start,        \* main's start
    elapsed,      \* main's elapsed
    launched,     \* iterations of the range loop of parallelUploads done
    wg,           \* the counter of the sync.WaitGroup
    task,         \* the goroutines: their state, objectName argument, error
    uploads,      \* the calls of uploader.Upload each goroutine has made
    bucket,       \* the objects stored in the bucket by this run
    out           \* the lines written to standard output

config == <<variant, concurrency, nodeNumber, objectSize, metaCount, metaSize, localOffset>>

mainVars == <<conc, objectNames, data, start, elapsed>>

vars == <<config, now, pc, exit, mainVars, launched, wg, task, uploads, bucket, out>>

\* ------------------------------------------------------------ helpers of the program

OBJECT == <<"o", "b", "j", "e", "c", "t">>

TESTMETADATAKEY ==
    <<"t", "e", "s", "t", "-", "m", "e", "t", "a", "d", "a", "t", "a", "-", "k", "e", "y">>

\* fault injected: the names are numbered from the loop index itself, from 0
ObjectNameFromZero(v, node, i) ==
    IF v = "put" THEN OBJECT \o <<"-">> \o node \o <<"-">> \o Itoa(i)
    ELSE OBJECT \o Itoa(i)

\* fmt.Sprintf("object-%s-%d", nodeNumber, i+1)  /  fmt.Sprintf("object%d", i+1)
ObjectName(v, node, i) ==
    IF v = "put" THEN OBJECT \o <<"-">> \o node \o <<"-">> \o Itoa(i + 1)
    ELSE OBJECT \o Itoa(i + 1)

\* for i := 0; i < conc; i++ { objectNames = append(objectNames, ...) }
RECURSIVE NamesLoop(_, _, _, _, _)
NamesLoop(names, i, n, v, node) ==
    IF i < n THEN NamesLoop(Append(names, ObjectName(v, node, i)), i + 1, n, v, node)
    ELSE names

\* fault injected: the loop runs while i <= conc
GenerateNamesInclusive(n, v, node) == NamesLoop(<<>>, 0, n + 1, v, node)

GenerateNames(n, v, node) == NamesLoop(<<>>, 0, n, v, node)

\* fault injected: one byte short
PayloadShort(size) == [j \in 1..(size - 1) |-> "a"]

\* bytes.Repeat([]byte("a"), size)
Payload(size) == [j \in 1..size |-> "a"]

\* fault injected: the buffer is sometimes one byte short
RandStringBytesShort(n) ==
    { [len |-> l, code |-> 0] : l \in {n, IF n > 0 THEN n - 1 ELSE 0} }

\* the strings randStringBytes(n) can return: n letters, each one of
\* letterBytes; at most MaxDraws of them are tried
RandStringBytes(n) ==
    LET strings == IF n = 0 THEN 1 ELSE letterBytesLen
    IN  { [len |-> n, code |-> c] : c \in 0..(Min(MaxDraws, strings) - 1) }

\* fmt.Sprintf("%s-%v", "test-metadata-key", i)
MetaKey(i) == TESTMETADATAKEY \o <<"-">> \o Itoa(i)

SetKey(meta, key, value) ==
    [k \in DOMAIN meta \cup {key} |-> IF k = key THEN value ELSE meta[k]]

\* parallel-put.go: for i := 1; i <= metaCount; i++ { meta[key(i)] = &metadataValue }
RECURSIVE MetaLoopPut(_, _, _, _)
MetaLoopPut(meta, i, count, value) ==
    IF i <= count THEN MetaLoopPut(SetKey(meta, MetaKey(i), value), i + 1, count, value)
    ELSE meta

\* part_000: for n := 0; n <= metaCount.Value; n++ { meta[key(metaCount)] = fresh value }
\* (metaCount is an int, so metaCount.Value is read as metaCount).  Every pass
\* writes the same key; value is the draw of the last pass, which is the one kept.
RECURSIVE MetaLoop000(_, _, _, _)
MetaLoop000(meta, n, count, value) ==
    IF n <= count THEN MetaLoop000(SetKey(meta, MetaKey(count), value), n + 1, count, value)
    ELSE meta

\* the length of the values uploadBlob draws
ValueSize(v, size) == IF v = "put" THEN size ELSE part000ValueSize

\* the metadata maps one call of uploadBlob can build
BuildMeta(v, count, size) ==
    { IF v = "put" THEN MetaLoopPut(<<>>, 1, count, value)
      ELSE MetaLoop000(<<>>, 0, count, value) :
      value \in RandStringBytes(ValueSize(v, size)) }

\* t.Format("2006-01-02T15:04:05.000Z"): the wall clock reading of t in t's
\* location, to the millisecond; the Z of the layout is printed as it stands
ZoneOffset(loc) == IF loc = "UTC" THEN 0 ELSE localOffset

Format(t, loc) == t + ZoneOffset(loc)


\* ------------------------------------------------------------ initial states

\* the state when main starts; part_000 reads neither NODE nor the local zone
Started ==
    /\ variant \in Variants
    /\ nodeNumber \in IF variant = "put" THEN NodeInputs ELSE { <<>> }
    /\ localOffset \in IF variant = "put" THEN LocalOffsets ELSE {0}
    /\ now = 0
    /\ pc = "main"
    /\ exit = "running"
    /\ conc = 0
    /\ objectNames = <<>>
    /\ data = <<>>
    /\ start = 0
    /\ elapsed = 0
    /\ launched = 0
    /\ wg = 0
    /\ task = <<>>
    /\ uploads = <<>>
    /\ bucket = <<>>
    /\ out = <<>>

\* every CONCURRENCY and -size, the metadata flags left at their defaults
Init ==
    /\ concurrency \in ConcurrencyInputs
    /\ objectSize \in 0..MaxSize
    /\ metaCount = defaultMetaCount
    /\ metaSize = defaultMetaSize
    /\ Started

\* every -meta-count and -meta-size, with one or two uploads of an empty object
InitMeta ==
    /\ concurrency \in { <<"1">>, <<"2">> }
    /\ objectSize = 0
    /\ metaCount \in 0..MaxMetaCount
    /\ metaSize \in 0..MaxMetaSize
    /\ Started

\* ------------------------------------------------------------ main

\* fault injected: the error of Atoi is ignored
ErrIgnored == FALSE

\* if err != nil { log.Fatalln(err) }
ConfigFatal == Atoi(concurrency).err

\* conc, err := strconv.Atoi(concurrency); log.Fatalln exits with status 1
ParseConcurrency ==
    /\ exit = "running" /\ pc = "main"
    /\ IF ConfigFatal
       THEN /\ exit' = "1"
            /\ pc' = "fatal"
            /\ conc' = conc
       ELSE /\ conc' = Atoi(concurrency).val
            /\ pc' = "names"
            /\ exit' = exit
    /\ UNCHANGED <<config, now, objectNames, data, start, elapsed,
                   launched, wg, task, uploads, bucket, out>>

\* the loop that fills objectNames, and data := bytes.Repeat(...)
BuildNames ==
    /\ exit = "running" /\ pc = "names"
    /\ objectNames' = GenerateNames(conc, variant, nodeNumber)
    /\ data' = Payload(objectSize)
    /\ task' = [i \in 1..Len(objectNames') |-> [st |-> "unlaunched", arg |-> <<>>]]
    /\ uploads' = [i \in 1..Len(objectNames') |-> <<>>]
    /\ pc' = "start"
    /\ UNCHANGED <<config, now, exit, conc, start, elapsed, launched, wg,
                   bucket, out>>

\* time.Now(): the clock is read, at the last reading or later
Readings == now..MaxClock

\* start := time.Now().UTC()
RecordStart ==
    /\ exit = "running" /\ pc = "start"
    /\ now' \in Readings
    /\ start' = now'
    /\ pc' = "launch"
    /\ UNCHANGED <<config, exit, conc, objectNames, data, elapsed,
                   launched, wg, task, uploads, bucket, out>>

\* one pass of the range loop: wg.Add(1); go func(objectName string){...}(objectName)
Launch ==
    /\ exit = "running" /\ pc = "launch"
    /\ launched < Len(objectNames)
    /\ wg' = wg + 1
    /\ launched' = launched + 1
    /\ task' = [task EXCEPT ![launched + 1] =
                    [st |-> "running", arg |-> objectNames[launched + 1]]]
    /\ UNCHANGED <<config, now, pc, exit, mainVars, uploads, bucket, out>>

\* fault injected: the barrier opens one task early
WaitReleasedEarly == wg <= 1

\* wg.Wait() returns when the counter is zero
WaitReleased == wg = 0

\* the loop is over; wg.Wait(); parallelUploads returns
Wait ==
    /\ exit = "running" /\ pc = "launch"
    /\ launched = Len(objectNames)
    /\ WaitReleased
    /\ pc' = "since"
    /\ UNCHANGED <<config, now, exit, mainVars, launched, wg, task, uploads, bucket, out>>

\* totalSize := conc * *objectSize; elapsed := time.Since(start)
Since ==
    /\ exit = "running" /\ pc = "since"
    /\ now' \in Readings
    /\ elapsed' = now' - start
    /\ pc' = "print"
    /\ UNCHANGED <<config, exit, conc, objectNames, data, start,
                   launched, wg, task, uploads, bucket, out>>

\* the location of the Time whose Format gives the end timestamp: time.Now()
EndLocation == "Local"

\* the instant the end timestamp is taken from, t being the reading of the
\* time.Now() in the arguments of Printf
EndReading(t) == t

\* float64(conc)/seconds and float64(totalSize)/seconds/1024/1024, kept as fractions
Ratio(n, d) == [num |-> n, den |-> d]

\* the line(s) of the report that remain to be computed and printed
ReportLine(k, t) ==
    IF variant = "put"
    THEN [tag |-> "PUT", node |-> nodeNumber, concurrency |-> concurrency,
          size |-> objectSize, metaCount |-> metaCount, metaSize |-> metaSize,
          elapsed |-> elapsed,
          speed |-> Ratio(conc, elapsed),
          bandwidth |-> Ratio(conc * objectSize, elapsed),
          start |-> Format(start, "UTC"),
          end |-> Format(EndReading(t), EndLocation)]
    ELSE IF k = 1 THEN [tag |-> "Elapsed time", elapsed |-> elapsed]
    ELSE IF k = 2 THEN [tag |-> "Speed", speed |-> Ratio(conc, elapsed)]
    ELSE [tag |-> "Bandwidth", bandwidth |-> Ratio(conc * objectSize, elapsed)]

ReportLines == IF variant = "put" THEN 1 ELSE 3

\* fmt.Printf / fmt.Println of the next line of the report
PrintLine ==
    /\ exit = "running" /\ pc = "print"
    /\ now' \in IF variant = "put" THEN Readings ELSE {now}
    /\ out' = Append(out, ReportLine(Len(out) + 1, now'))
    /\ pc' = IF Len(out') = ReportLines THEN "return" ELSE "print"
    /\ UNCHANGED <<config, exit, mainVars, launched, wg, task, uploads, bucket>>

\* main returns.  The Go runtime does not let main's return end the process
\* while a goroutine is panicking: the panic ends it, with status 2.
Return ==
    /\ exit = "running" /\ pc = "return"
    /\ \A i \in DOMAIN task : task[i].st # "panicking"
    /\ exit' = "0"
    /\ pc' = "done"
    /\ UNCHANGED <<config, now, mainVars, launched, wg, task, uploads, bucket, out>>

\* ------------------------------------------------------------ the upload goroutines

\* fault injected: the closure reads the loop variable instead of its parameter
TaskObjectNameCaptured(i) == objectNames[launched]

\* the objectName the goroutine passes to uploadBlob: its own parameter
TaskObjectName(i) == task[i].arg

\* the object uploader.Upload stores on success
StoredObject(body, meta) == [body |-> body, meta |-> meta]

\* uploadBlob(data, objectName, metaCount, metaSize) returns nil:
\* the metadata is built, and the object is stored under Key
UploadOk(i) ==
    /\ exit = "running"
    /\ task[i].st = "running"
    /\ \E meta \in BuildMeta(variant, metaCount, metaSize) :
         LET key == TaskObjectName(i) IN
         /\ uploads' = [uploads EXCEPT ![i] =
                            Append(@, [key |-> key, body |-> data, meta |-> meta,
                                       err |-> FALSE])]
         /\ bucket' = SetKey(bucket, key, StoredObject(data, meta))
    /\ task' = [task EXCEPT ![i].st = "returned"]
    /\ UNCHANGED <<config, now, pc, exit, mainVars, launched, wg, out>>

\* uploadBlob returns an error: nothing is stored
UploadErr(i) ==
    /\ exit = "running"
    /\ task[i].st = "running"
    /\ \E meta \in BuildMeta(variant, metaCount, metaSize) :
         uploads' = [uploads EXCEPT ![i] =
                         Append(@, [key |-> TaskObjectName(i), body |-> data,
                                    meta |-> meta, err |-> TRUE])]
    /\ task' = [task EXCEPT ![i].st = "failed"]
    /\ UNCHANGED <<config, now, pc, exit, mainVars, launched, wg, bucket, out>>

\* err == nil: the goroutine returns and its deferred wg.Done() runs
TaskDone(i) ==
    /\ exit = "running"
    /\ task[i].st = "returned"
    /\ wg' = wg - 1
    /\ task' = [task EXCEPT ![i].st = "done"]
    /\ UNCHANGED <<config, now, pc, exit, mainVars, launched, uploads, bucket, out>>

\* panic(err): the deferred wg.Done() runs first, as every deferred call of a
\* panicking goroutine does
PanicDefer(i) ==
    /\ exit = "running"
    /\ task[i].st = "failed"
    /\ wg' = wg - 1
    /\ task' = [task EXCEPT ![i].st = "panicking"]
    /\ UNCHANGED <<config, now, pc, exit, mainVars, launched, uploads, bucket, out>>

\* the panic was not recovered: the runtime prints it and exits with status 2
PanicExit(i) ==
    /\ exit = "running"
    /\ task[i].st = "panicking"
    /\ exit' = "2"
    /\ UNCHANGED <<config, now, pc, mainVars, launched, wg, task, uploads, bucket, out>>

\* ------------------------------------------------------------ specification

Next ==
    \/ ParseConcurrency
    \/ BuildNames
    \/ RecordStart
    \/ Launch
    \/ Wait
    \/ Since
    \/ PrintLine
    \/ Return
    \/ \E i \in DOMAIN task : UploadOk(i)
    \/ \E i \in DOMAIN task : UploadErr(i)
    \/ \E i \in DOMAIN task : TaskDone(i)
    \/ \E i \in DOMAIN task : PanicDefer(i)
    \/ \E i \in DOMAIN task : PanicExit(i)

Spec == Init /\ [][Next]_vars

SpecMeta == InitMeta /\ [][Next]_vars


\* ------------------------------------------------------------ properties

\* the calls of Upload made so far, as <<goroutine, position in its log>>
Attempts == UNION { { <<i, k>> : k \in 1..Len(uploads[i]) } : i \in DOMAIN uploads }

Attempt(a) == uploads[a[1]][a[2]]

SomeUploadFailed == \E a \in Attempts : Attempt(a).err

NameSet == { objectNames[i] : i \in DOMAIN objectNames }

AfterBarrier == pc \in {"since", "print", "return", "done"}

\* C1: once an upload has returned an error, no line of the report is ever
\* printed and the process does not exit with status 0.
C1_NoReportAfterFailure ==
    SomeUploadFailed => (out = <<>> /\ exit # "0")

\* C2: the driver is past wg.Wait() only when every pass of the launch loop is
\* done and every task has finished its uploadBlob call and run wg.Done(); the
\* counter is the number of launched tasks that have not run wg.Done().
C2_BarrierHolds ==
    /\ wg = Cardinality({ i \in DOMAIN task : task[i].st \in {"running", "returned", "failed"} })
    /\ AfterBarrier =>
         /\ launched = Len(objectNames)
         /\ wg = 0
         /\ \A i \in DOMAIN task :
              /\ task[i].st \in {"done", "panicking"}
              /\ Len(uploads[i]) = 1

C2_Witness ==
    /\ pc = "since"
    /\ Len(objectNames) >= 2
    /\ \A i \in DOMAIN task : task[i].st = "done"

\* C3: no object name is ever the key of two uploads, and when a run without
\* a failed upload has ended, one task was launched per name, each task made
\* exactly one upload, under the name it was launched with, and every name
\* is the key of exactly one upload.
C3_OneUploadPerName ==
    /\ \A a, b \in Attempts : Attempt(a).key = Attempt(b).key => a = b
    /\ (pc = "done" /\ ~SomeUploadFailed) =>
         /\ launched = Len(objectNames)
         /\ conc >= 0 => launched = conc
         /\ \A i \in DOMAIN task :
              /\ Len(uploads[i]) = 1
              /\ uploads[i][1].key = objectNames[i]
         /\ \A n \in DOMAIN objectNames :
              Cardinality({ a \in Attempts : Attempt(a).key = objectNames[n] }) = 1

C3_Witness ==
    /\ pc = "done"
    /\ ~SomeUploadFailed
    /\ Cardinality(Attempts) >= 2

\* the digits a string ends with
RECURSIVE TrailingDigits(_)
TrailingDigits(s) ==
    IF s = <<>> \/ ~IsDigit(s[Len(s)]) THEN <<>>
    ELSE TrailingDigits(SubSeq(s, 1, Len(s) - 1)) \o <<s[Len(s)]>>

\* C4: once the names are generated, there are conc of them when conc >= 0 (and
\* none otherwise), the i-th name starts with "object" and ends with the
\* decimal numeral of i, counting from 1, and the names are pairwise distinct.
C4_NamesGenerated ==
    pc \notin {"main", "fatal", "names"} =>
        /\ Len(objectNames) = IF conc >= 0 THEN conc ELSE 0
        /\ \A i \in DOMAIN objectNames :
             /\ SubSeq(objectNames[i], 1, Len(OBJECT)) = OBJECT
             /\ TrailingDigits(objectNames[i]) # <<>>
             /\ DigitsVal(TrailingDigits(objectNames[i])) = i
        /\ \A i, j \in DOMAIN objectNames : objectNames[i] = objectNames[j] => i = j

C4_Witness ==
    /\ pc = "launch"
    /\ Len(objectNames) >= 2
    /\ nodeNumber # <<>>

\* C5: when CONCURRENCY is unset or is no integer, main gets no further than
\* the fatal exit with status 1: no name is generated, no task launched, no
\* upload made and nothing printed.
C5_NoRunWithoutConcurrency ==
    concurrency \in NotNumbers =>
        /\ pc \in {"main", "fatal"}
        /\ exit = (IF pc = "fatal" THEN "1" ELSE "running")
        /\ objectNames = <<>>
        /\ launched = 0
        /\ task = <<>>
        /\ uploads = <<>>
        /\ bucket = <<>>
        /\ out = <<>>

C5_Witness ==
    /\ concurrency = <<>>
    /\ pc = "fatal"
    /\ exit = "1"

\* the inputs that are integers not above 0
NonPositiveInputs == { <<"0">>, <<"-", "1">>, <<"+", "0">>, <<"0", "0">> }

\* C6, as claimed: a CONCURRENCY of 0 or below ends in the fatal exit, so main
\* never gets to the generation of the names.
C6_NonPositiveIsFatal ==
    concurrency \in NonPositiveInputs => pc \in {"main", "fatal"}

\* C6, amended: a CONCURRENCY of 0 or below is not fatal: no name is
\* generated, no task launched and no upload made, and when main has returned
\* the whole report is printed and the exit status is 0.
C6_NonPositiveRunsEmpty ==
    concurrency \in NonPositiveInputs =>
        /\ pc # "fatal"
        /\ exit \in {"running", "0"}
        /\ objectNames = <<>>
        /\ launched = 0
        /\ Attempts = {}
        /\ pc = "done" => (exit = "0" /\ Len(out) = ReportLines)

C6_Witness ==
    /\ concurrency = <<"-", "1">>
    /\ pc = "done"
    /\ out # <<>>

\* C7: when a run in which every upload succeeded has ended, the keys stored
\* in the bucket are exactly the object names, and each holds objectSize
\* bytes "a".
C7_FinalStorage ==
    (pc = "done" /\ ~SomeUploadFailed) =>
        /\ DOMAIN bucket = NameSet
        /\ \A key \in DOMAIN bucket :
             /\ Len(bucket[key].body) = objectSize
             /\ \A j \in 1..objectSize : bucket[key].body[j] = "a"

C7_Witness ==
    /\ pc = "done"
    /\ Cardinality(DOMAIN bucket) >= 2
    /\ objectSize >= 1

\* C8: the metadata of every upload has exactly metaCount entries, under the
\* keys test-metadata-key-1 .. test-metadata-key-<metaCount>, each value
\* metaSize long.
C8_MetadataShape ==
    \A a \in Attempts :
        LET meta == Attempt(a).meta IN
        /\ DOMAIN meta = { MetaKey(i) : i \in 1..metaCount }
        /\ Cardinality(DOMAIN meta) = metaCount
        /\ \A key \in DOMAIN meta : meta[key].len = metaSize

C10_ElapsedIsEndMinusStart ==
    \A k \in DOMAIN out :
        out[k].tag = "PUT" => out[k].end - out[k].start = out[k].elapsed

=============================================================================
